---- MODULE Spec2Model ----
(***************************************************************************)
(* Model of src/src/module.py: VGGExtractor, RNNLayer, ScaleDotAttention   *)
(* and LocationAwareAttention.                                             *)
(*                                                                         *)
(* Tensors are modelled by their shapes and, where a property speaks about *)
(* values, by symbolic rows (frame / cell identifiers) or exact rationals. *)
(* Names a function reads without defining them (example_input, d, bs,     *)
(* enc_len, dim, rnn_cell, ... and the attributes self.k, self.num_head of *)
(* classes that never assign them) are module-scope or instance state that *)
(* only the surrounding program can bind: every action draws their binding *)
(* (or "unbound") from its environment, and an unbound name raises.        *)
(***************************************************************************)
EXTENDS Integers, Sequences, FiniteSets, TLC

VARIABLES vgg, vgg_call, rnn, rnn_call, sda, sda_call, laa, prev_att, laa_call

vars == <<vgg, vgg_call, rnn, rnn_call, sda, sda_call, laa, prev_att, laa_call>>

vggVars == <<vgg, vgg_call>>
rnnVars == <<rnn, rnn_call>>
sdaVars == <<sda, sda_call>>
laaVars == <<laa, prev_att, laa_call>>

(* ---------------------------------------------------------------------- *)
(* Bounds                                                                  *)
(* ---------------------------------------------------------------------- *)
MaxT == 8
MaxLen == 6
MaxDim == 2
MaxRate == 3
MaxTq == 2
MaxTk == 3
MaxKeys == 2

\* Batch sizes of the calls that are explored.
Batches == 1..2

(* ---------------------------------------------------------------------- *)
(* Common helpers                                                          *)
(* ---------------------------------------------------------------------- *)
\* A name's binding: <<>> when nothing binds it, <<v>> when bound to v.
Unbound == <<>>
Bound(v) == <<v>>
IsBound(b) == b # Unbound
Val(b) == b[1]
None == <<>>

\* Non-increasing length vectors of n entries, each in lo..hi.
RECURSIVE LenVectors(_, _, _)
LenVectors(n, lo, hi) ==
    IF n = 0 THEN {<<>>}
    ELSE UNION {{<<h>> \o s : s \in LenVectors(n - 1, lo, h)} : h \in lo..hi}

\* x // n on every entry of a length vector.
FloorDivAll(x_len, n) == [i \in 1..Len(x_len) |-> x_len[i] \div n]

(* ---------------------------------------------------------------------- *)
(* VGGExtractor                                                            *)
(* ---------------------------------------------------------------------- *)
FeatureDims == {13, 39, 40, 50, 120, 520}
\* example_input.shape[-1] and the type of d, as the environment binds them.
ExampleInputs == {Unbound} \cup {Bound(n) : n \in FeatureDims}
DBindings == {Unbound, Bound("str"), Bound("int")}

NoDim == [err |-> "none", in_channel |-> 0, freq_dim |-> 0, out_dim |-> 0]

\* check_dim: line 29 overwrites the argument with example_input.shape[-1];
\* the raise on line 37 first evaluates 'text' + d.
check_dim(input_dim, example_input, d) ==
    IF example_input = Unbound THEN [NoDim EXCEPT !.err = "NameError"]
    ELSE LET dim == Val(example_input) IN
         IF dim % 13 = 0
         THEN [err |-> "none", in_channel |-> dim \div 13, freq_dim |-> 13,
               out_dim |-> (13 \div 4) * 128]
         ELSE IF dim % 40 = 0
         THEN [err |-> "none", in_channel |-> dim \div 40, freq_dim |-> 40,
               out_dim |-> (40 \div 4) * 128]
         ELSE IF d = Unbound THEN [NoDim EXCEPT !.err = "NameError"]
         ELSE IF Val(d) = "str" THEN [NoDim EXCEPT !.err = "ValueError"]
         ELSE [NoDim EXCEPT !.err = "TypeError"]

NoVGG == [state |-> "none", input_dim |-> 0, err |-> "none",
          in_channel |-> 0, freq_dim |-> 0, out_dim |-> 0]

\* VGGExtractor.__init__
VGGExtractorInit(input_dim, example_input, d) ==
    LET r == check_dim(input_dim, example_input, d) IN
    /\ vgg.state = "none"
    /\ vgg' = [state |-> IF r.err = "none" THEN "built" ELSE "failed",
               input_dim |-> input_dim, err |-> r.err,
               in_channel |-> r.in_channel, freq_dim |-> r.freq_dim,
               out_dim |-> r.out_dim]
    /\ UNCHANGED <<vgg_call, rnnVars, sdaVars, laaVars>>

\* Frames 1..ts of the time axis.
Frames(ts) == [i \in 1..ts |-> i]

\* Variant of CropTime that keeps the trailing frames.
CropTime_NoCrop(frames) == frames

\* feature[:, :-(t % 4), :] when t % 4 != 0 (lines 43-44).
CropTime(frames) ==
    IF Len(frames) % 4 # 0
    THEN SubSeq(frames, 1, Len(frames) - (Len(frames) % 4))
    ELSE frames

\* view_input: lengths // 4, crop, view(bs, ts, in_channel, freq_dim).
view_input(frames, ds, feat_len, self) ==
    LET cropped == CropTime(frames) IN
    [err |-> IF ds = self.in_channel * self.freq_dim THEN "none" ELSE "RuntimeError",
     frames |-> cropped,
     feat_len |-> FloorDivAll(feat_len, 4)]

\* nn.Conv2d(_, _, 3, stride=1, padding=1) on one spatial axis.
ConvOut(n) == n + 2 * 1 - 3 + 1
ConvOk(n) == n + 2 * 1 >= 3
\* nn.MaxPool2d(2, stride=2) on one spatial axis.
PoolOut(n) == (n - 2) \div 2 + 1
PoolOk(n) == PoolOut(n) >= 1

\* self.extractor on one spatial axis: conv, conv, pool, conv, conv, pool.
ExtractorOk(n) ==
    /\ ConvOk(n) /\ ConvOk(ConvOut(n)) /\ PoolOk(ConvOut(ConvOut(n)))
    /\ LET h == PoolOut(ConvOut(ConvOut(n))) IN
       ConvOk(h) /\ ConvOk(ConvOut(h)) /\ PoolOk(ConvOut(ConvOut(h)))
ExtractorOut(n) ==
    PoolOut(ConvOut(ConvOut(PoolOut(ConvOut(ConvOut(n))))))

NoVGGCall == [res |-> "none", T |-> 0, feat_len |-> <<>>, kept |-> <<>>,
              out_time |-> 0, out_dim |-> 0, out_len |-> <<>>]

\* VGGExtractor.forward
VGGForwardResult(T, ds, feat_len, self) ==
    LET v == view_input(Frames(T), ds, feat_len, self)
        ts == Len(v.frames)
        base == [NoVGGCall EXCEPT !.T = T, !.feat_len = feat_len]
    IN  IF v.err # "none" THEN [base EXCEPT !.res = "RuntimeError"]
        ELSE IF ~(ExtractorOk(ts) /\ ExtractorOk(self.freq_dim))
        THEN [base EXCEPT !.res = "RuntimeError", !.kept = v.frames]
        ELSE IF 128 * ExtractorOut(self.freq_dim) # self.out_dim
        THEN [base EXCEPT !.res = "RuntimeError", !.kept = v.frames]
        ELSE [base EXCEPT !.res = "ok", !.kept = v.frames,
                          !.out_time = ExtractorOut(ts),
                          !.out_dim = self.out_dim,
                          !.out_len = v.feat_len]

VGGForward(T, ds, feat_len) ==
    /\ vgg.state = "built"
    /\ vgg_call' = VGGForwardResult(T, ds, feat_len, vgg)
    /\ UNCHANGED <<vgg, rnnVars, sdaVars, laaVars>>

\* The features handed to forward have the width the caller declared to the
\* constructor, or the width the extractor was actually built for; a batch is
\* padded to its longest item, so the time axis is feat_len[0].
VGGNext ==
    \/ \E input_dim \in FeatureDims, e \in ExampleInputs, d \in DBindings :
          VGGExtractorInit(input_dim, e, d)
    \/ \E b \in Batches, ds \in {vgg.input_dim, vgg.in_channel * vgg.freq_dim} :
          \E feat_len \in LenVectors(b, 1, MaxT) :
             VGGForward(feat_len[1], ds, feat_len)

(* ---------------------------------------------------------------------- *)
(* RNNLayer                                                                *)
(* ---------------------------------------------------------------------- *)
SampleStyles == {"drop", "concat", "none"}
CtorNames == {"rnn_cell", "in_dim"}
FwdNames == {"pack_padded_sequence", "state", "pad_packed_sequence"}

rnn_out_dim(dim, bidirection) == IF bidirection THEN 2 * dim ELSE dim

\* Variant of RNNOutDim that forgets the concat widening.
RNNOutDim_NoConcat(dim, bidirection, sample_rate, sample_style) ==
    rnn_out_dim(dim, bidirection)

\* line 70
RNNOutDim(dim, bidirection, sample_rate, sample_style) ==
    IF sample_rate > 1 /\ sample_style = "concat"
    THEN sample_rate * rnn_out_dim(dim, bidirection)
    ELSE rnn_out_dim(dim, bidirection)

NoRNN == [state |-> "none", err |-> "none", dim |-> 0, bidirection |-> FALSE,
          out_dim |-> 0, sample_rate |-> 0, sample_style |-> "none"]

\* RNNLayer.__init__; bound is the set of free names of line 80 that resolve.
RNNLayerInit(dim, bidirection, sample_rate, sample_style, bound) ==
    LET err == IF sample_style \notin {"drop", "concat"} THEN "ValueError"
               ELSE IF ~(CtorNames \subseteq bound) THEN "NameError"
               ELSE "none"
    IN
    /\ rnn.state = "none"
    /\ rnn' = [state |-> IF err = "none" THEN "built" ELSE "failed",
               err |-> err, dim |-> dim, bidirection |-> bidirection,
               out_dim |-> RNNOutDim(dim, bidirection, sample_rate, sample_style),
               sample_rate |-> sample_rate, sample_style |-> sample_style]
    /\ UNCHANGED <<rnn_call, vggVars, sdaVars, laaVars>>

\* Output of the recurrent layer (after LayerNorm / Dropout, which keep the
\* shape) for one batch item: timestep rows of width feature_dim; cell <<t, f>>
\* stands for the value at (0-based) time t, feature f.
Recurrence(timestep, feature_dim) ==
    [t \in 1..timestep |-> [f \in 1..feature_dim |-> <<t - 1, f - 1>>]]

\* Width of self.layer's output: nn.<CELL>(in_dim, dim, bidirectional=...).
LayerWidth(self) == IF self.bidirection THEN 2 * self.dim ELSE self.dim

RECURSIVE Flatten(_)
Flatten(rows) == IF rows = <<>> THEN <<>> ELSE Head(rows) \o Flatten(Tail(rows))

\* tensor.view(n, width) of a contiguous list of cells; the element counts
\* must agree.
ViewOk(cells, n, width) == Len(cells) = n * width
View(cells, n, width) ==
    [i \in 1..n |-> SubSeq(cells, (i - 1) * width + 1, i * width)]

\* output[:, ::sample_rate, :]  (line 109)
DropSample(output, sample_rate) ==
    [i \in 1..((Len(output) + sample_rate - 1) \div sample_rate) |->
        output[(i - 1) * sample_rate + 1]]

\* lines 112-114
ConcatSample(output, sample_rate) ==
    LET timestep == Len(output)
        feature_dim == Len(output[1])
        kept == IF timestep % sample_rate # 0
                THEN SubSeq(output, 1, timestep - (timestep % sample_rate))
                ELSE output
        n == timestep \div sample_rate
        width == feature_dim * sample_rate
    IN  [err |-> IF ViewOk(Flatten(kept), n, width) THEN "none" ELSE "RuntimeError",
         output |-> View(Flatten(kept), n, width)]

\* Variant of DownsampleLen that leaves the lengths as they were.
DownsampleLen_Keep(x_len, sample_rate) == x_len

\* x_len // self.sample_rate  (line 105)
DownsampleLen(x_len, sample_rate) == FloorDivAll(x_len, sample_rate)

\* lines 103-114
Downsample(output, x_len, self) ==
    IF self.sample_rate > 1
    THEN IF self.sample_style = "drop"
         THEN [err |-> "none",
               output |-> DropSample(output, self.sample_rate),
               x_len |-> DownsampleLen(x_len, self.sample_rate)]
         ELSE LET c == ConcatSample(output, self.sample_rate) IN
              [err |-> c.err, output |-> c.output,
               x_len |-> DownsampleLen(x_len, self.sample_rate)]
    ELSE [err |-> "none", output |-> output, x_len |-> x_len]

NoRNNCall == [res |-> "none", x_len |-> <<>>, post |-> <<>>,
              output |-> <<>>, out_len |-> <<>>]

\* RNNLayer.forward; pad_packed_sequence pads to the longest length.
RNNForwardResult(x_len, bound, self) ==
    LET base == [NoRNNCall EXCEPT !.x_len = x_len] IN
    IF ~(FwdNames \subseteq bound) THEN [base EXCEPT !.res = "NameError"]
    ELSE LET post == Recurrence(x_len[1], LayerWidth(self))
             d == Downsample(post, x_len, self)
         IN  IF d.err # "none" THEN [base EXCEPT !.res = d.err, !.post = post]
             ELSE [base EXCEPT !.res = "ok", !.post = post,
                               !.output = d.output, !.out_len = d.x_len]

RNNForward(x_len, bound) ==
    /\ rnn.state = "built"
    /\ rnn_call' = RNNForwardResult(x_len, bound, rnn)
    /\ UNCHANGED <<rnn, vggVars, sdaVars, laaVars>>

RNNNext ==
    \/ \E dim \in 1..MaxDim, bidirection \in BOOLEAN, sample_rate \in 1..MaxRate,
          sample_style \in SampleStyles, bound \in SUBSET CtorNames :
          RNNLayerInit(dim, bidirection, sample_rate, sample_style, bound)
    \/ \E b \in Batches, bound \in SUBSET FwdNames :
          \E x_len \in LenVectors(b, 1, MaxLen) : RNNForward(x_len, bound)

(* ---------------------------------------------------------------------- *)
(* Rational arithmetic for attention weights                               *)
(* ---------------------------------------------------------------------- *)
\* A weight is a fraction <<num, den>>; <<0, 0>> is NaN.
NaN == <<0, 0>>
Zero == <<0, 1>>
IsNaN(x) == x[2] = 0
RAdd(x, y) == IF IsNaN(x) \/ IsNaN(y) THEN NaN
              ELSE <<x[1] * y[2] + y[1] * x[2], x[2] * y[2]>>
REq(x, y) == ~IsNaN(x) /\ ~IsNaN(y) /\ x[1] * y[2] = y[1] * x[2]

RECURSIVE RSum(_)
RSum(xs) == IF xs = <<>> THEN Zero ELSE RAdd(Head(xs), RSum(Tail(xs)))

RECURSIVE ISum(_)
ISum(xs) == IF xs = <<>> THEN 0 ELSE Head(xs) + ISum(Tail(xs))

\* exp(n / 2) for the scores that occur, to one decimal, times 10.
ExpHalves == [n \in 0..2 |-> CASE n = 0 -> 10 [] n = 1 -> 16 [] n = 2 -> 27]

\* exp of the score num / temperature; -inf (a masked entry) gives 0.
ExpScore(num, temperature, masked) ==
    IF masked THEN 0 ELSE ExpHalves[(2 * num) \div temperature]

\* nn.Softmax(dim=1) of a tensor (BN, rows, cols) whose entries are given by
\* their exponentials e[i][j]: axis 1 is the rows axis, so every entry is
\* normalised by the sum of its column.  A column of -inf yields NaN.
SoftmaxDim1(e) ==
    [i \in 1..Len(e) |->
        [j \in 1..Len(e[i]) |->
            LET total == ISum([r \in 1..Len(e) |-> e[r][j]]) IN
            IF total = 0 THEN NaN ELSE <<e[i][j], total>>]]

(* ---------------------------------------------------------------------- *)
(* ScaleDotAttention                                                       *)
(* ---------------------------------------------------------------------- *)
Temperatures == {1, 2}
\* Bindings of the module-scope name bs and of the attribute self.num_head,
\* neither of which ScaleDotAttention assigns.
IntBindings == {Unbound, Bound(1), Bound(2)}
Scalars == {0, 1}
Vectors(n) == [1..n -> Scalars]
Masks(n) == {None} \cup {Bound(m) : m \in [1..n -> BOOLEAN]}

NoSDA == [state |-> "none", err |-> "none", temperature |-> 0]

\* class ScaleDotAttention(nn.module) and __init__; the class exists only if
\* the library binds nn.module.
ScaleDotAttentionInit(temperature, base_bound) ==
    /\ sda.state = "none"
    /\ sda' = IF base_bound
              THEN [state |-> "built", err |-> "none", temperature |-> temperature]
              ELSE [state |-> "failed", err |-> "AttributeError", temperature |-> 0]
    /\ UNCHANGED <<sda_call, vggVars, rnnVars, laaVars>>

NoSDACall == [res |-> "none", Tq |-> 0, Tk |-> 0, mask |-> None,
              attn |-> <<>>, shape |-> <<>>]

\* ScaleDotAttention.forward on q (BN, Tq, 1) / (BN, 1), k (BN, Tk, 1) and a
\* mask over the key positions broadcast over the queries; every batch-head
\* slice carries the same values.
SDAForwardResult(q_rank, BN, q, k, mask, bs, num_head, self) ==
    LET base == [NoSDACall EXCEPT !.Tq = Len(q), !.Tk = Len(k), !.mask = mask]
        masked(j) == IsBound(mask) /\ Val(mask)[j]
        \* lines 127-131: bmm, / temperature, masked_fill(mask, -inf)
        e == [i \in 1..Len(q) |->
                [j \in 1..Len(k) |-> ExpScore(q[i] * k[j], self.temperature, masked(j))]]
        attn == SoftmaxDim1(e)
        total == BN * Len(q) * Len(k)
    IN  IF q_rank # 3 THEN [base EXCEPT !.res = "RuntimeError"]
        ELSE IF ~IsBound(bs) THEN [base EXCEPT !.res = "NameError"]
        ELSE IF ~IsBound(num_head) THEN [base EXCEPT !.res = "AttributeError"]
        ELSE IF total % (Val(bs) * Val(num_head)) # 0
        THEN [base EXCEPT !.res = "RuntimeError"]
        ELSE [base EXCEPT !.res = "ok", !.attn = attn,
                  !.shape = <<Val(bs), Val(num_head),
                              total \div (Val(bs) * Val(num_head))>>]

\* forward keeps no state: one call per instance reaches all of its results.
SDAForward(q_rank, BN, q, k, mask, bs, num_head) ==
    /\ sda.state = "built"
    /\ sda_call.res = "none"
    /\ sda_call' = SDAForwardResult(q_rank, BN, q, k, mask, bs, num_head, sda)
    /\ UNCHANGED <<sda, vggVars, rnnVars, laaVars>>

SDANext ==
    \/ \E temperature \in Temperatures, base_bound \in BOOLEAN :
          ScaleDotAttentionInit(temperature, base_bound)
    \/ \E q_rank \in {2, 3}, BN \in Batches, Tq \in 1..MaxTq, Tk \in 1..MaxTk,
          bs \in IntBindings, num_head \in IntBindings :
          \E q \in Vectors(IF q_rank = 3 THEN Tq ELSE 1), k \in Vectors(Tk),
             mask \in Masks(Tk) :
             SDAForward(q_rank, BN, q, k, mask, bs, num_head)

(* ---------------------------------------------------------------------- *)
(* LocationAwareAttention                                                  *)
(* ---------------------------------------------------------------------- *)
Heads == {1, 2}
AttDims == {1, 2}
KernelSizes == {1}
LAABatches == {2, 4}

\* Bindings the environment can give to bs, enc_len and dim.
BsBindings == {Unbound} \cup {Bound(b) : b \in LAABatches}
EncLenBindings ==
    {Unbound} \cup {Bound(l) : l \in UNION {LenVectors(b, 1, MaxKeys) : b \in LAABatches}}
DimBindings == {Unbound} \cup {Bound(d) : d \in AttDims}

NoLAA == [state |-> "none", err |-> "none", num_head |-> 0, dim |-> 0,
          kernel_size |-> 0]

\* class LocationAwareAttention(nn.module) and __init__ (prev_att = None).
LocationAwareAttentionInit(kernel_size, dim, num_head, base_bound) ==
    /\ laa.state = "none"
    /\ laa' = IF base_bound
              THEN [state |-> "built", err |-> "none", num_head |-> num_head,
                    dim |-> dim, kernel_size |-> kernel_size]
              ELSE [NoLAA EXCEPT !.state = "failed", !.err = "AttributeError"]
    /\ prev_att' = None
    /\ UNCHANGED <<laa_call, vggVars, rnnVars, sdaVars>>

NoLAACall == [op |-> "none", res |-> "none", line |-> 0, B |-> 0, ts |-> 0,
              lazy |-> FALSE, bs |-> Unbound, enc_len |-> Unbound,
              conv_in |-> None, ret |-> None, prev_B |-> 0]

\* reset_mem
ResetMem ==
    /\ laa.state = "built"
    /\ prev_att' = None
    /\ laa_call' = [NoLAACall EXCEPT !.op = "reset_mem", !.res = "ok"]
    /\ UNCHANGED <<laa, vggVars, rnnVars, sdaVars>>

\* An attention tensor (batch, num_head, time): its shape and, for each batch
\* item, the row of weights shared by all heads.
Tensor(b, n, t, rows) == [shape |-> <<b, n, t>>, rows |-> rows]

\* torch.zeros((bs, num_head, ts))  (line 159)
ZerosAtt(bs, n, ts) == Tensor(bs, n, ts, [b \in 1..bs |-> [t \in 1..ts |-> Zero]])

\* Variant of UniformRow that spreads the weight over the whole key axis.
UniformRow_OverTs(sl, ts) == [t \in 1..ts |-> IF t <= sl THEN <<1, ts>> ELSE Zero]

\* prev_att[idx, :, :sl] = 1.0 / sl on a row of zeros  (line 161)
UniformRow(sl, ts) == [t \in 1..ts |-> IF t <= sl THEN <<1, sl>> ELSE Zero]

\* lines 160-161, for the entries of enc_len that index the tensor.
FillUniform(att, enc_len) ==
    [att EXCEPT !.rows =
        [b \in 1..Len(att.rows) |->
            IF b <= Len(enc_len) THEN UniformRow(enc_len[b], att.shape[3])
            ELSE att.rows[b]]]

\* lines 158-161: [err, prev_att] after the lazy initialisation.
LazyInit(prev, ts, bs, enc_len, self) ==
    IF prev # None THEN [err |-> "none", prev_att |-> prev]
    ELSE IF ~IsBound(bs) THEN [err |-> "NameError", prev_att |-> None]
    ELSE LET zeros == ZerosAtt(Val(bs), self.num_head, ts) IN
         IF ~IsBound(enc_len) THEN [err |-> "NameError", prev_att |-> zeros]
         ELSE IF Len(Val(enc_len)) > Val(bs)
         THEN [err |-> "IndexError", prev_att |-> FillUniform(zeros, Val(enc_len))]
         ELSE [err |-> "none", prev_att |-> FillUniform(zeros, Val(enc_len))]

\* nn.Conv1d(num_head, kernel_num, kernel_size=2*ks+1, padding=ks) on the time axis.
LocConvOut(t, ks) == t + 2 * ks - (2 * ks + 1) + 1

\* Broadcasting of two shapes of equal rank.
Broadcastable(a, b) == \A i \in 1..Len(a) : a[i] = b[i] \/ a[i] = 1 \/ b[i] = 1
Broadcast(a, b) == [i \in 1..Len(a) |-> IF a[i] = 1 THEN b[i] ELSE a[i]]

\* Local names assigned before line 173 is evaluated.
LocalsAtSoftmax == {"self", "q", "k", "v", "mask", "ts", "loc_context", "energy"}

Raised(call, kind, line) == [call EXCEPT !.res = kind, !.line = line]

\* LocationAwareAttention.forward for q (B*num_head, dim), k (B*num_head, ts,
\* dim): [call, prev_att] when the call has returned or raised.
LAAForwardResult(B, ts, bs, enc_len, dim, self_k, self, prev, last) ==
    LET init == LazyInit(prev, ts, bs, enc_len, self)
        base == [NoLAACall EXCEPT !.op = "forward", !.B = B, !.ts = ts,
                    !.lazy = (prev = None),
                    !.bs = IF prev = None THEN bs ELSE Unbound,
                    !.enc_len = IF prev = None /\ IsBound(bs) THEN enc_len ELSE Unbound,
                    !.prev_B = IF last.op = "forward" THEN last.B ELSE 0]
        p == init.prev_att
        \* line 164: loc_conv -> (b, kernel_num, t); transpose, loc_proj -> (b, t, dim)
        loc == <<p.shape[1], LocConvOut(p.shape[3], self.kernel_size), self.dim>>
        \* line 165: unsqueeze(1).repeat(1, num_head, 1, 1).view(-1, ts, dim)
        total == loc[1] * self.num_head * loc[2] * loc[3]
        at_conv == [base EXCEPT !.conv_in = p]
        q3 == <<B * self.num_head, 1, self.dim>>
    IN  IF init.err # "none"
        THEN [call |-> Raised(base, init.err, IF IsBound(bs) THEN 160 ELSE 159),
              prev_att |-> p]
        ELSE IF ~IsBound(dim)
        THEN [call |-> Raised(at_conv, "NameError", 165), prev_att |-> p]
        ELSE IF total % (ts * Val(dim)) # 0
        THEN [call |-> Raised(at_conv, "RuntimeError", 165), prev_att |-> p]
        ELSE LET loc_context == <<total \div (ts * Val(dim)), ts, Val(dim)>> IN
             IF ~IsBound(self_k)
             THEN [call |-> Raised(at_conv, "AttributeError", 169), prev_att |-> p]
             ELSE IF ~Broadcastable(Val(self_k), q3)
             THEN [call |-> Raised(at_conv, "RuntimeError", 169), prev_att |-> p]
             ELSE IF ~Broadcastable(Broadcast(Val(self_k), q3), loc_context)
             THEN [call |-> Raised(at_conv, "RuntimeError", 169), prev_att |-> p]
             ELSE IF Broadcast(Broadcast(Val(self_k), q3), loc_context)[3] # self.dim
             THEN [call |-> Raised(at_conv, "RuntimeError", 169), prev_att |-> p]
             \* line 173: attn = self.softmax(attn) reads the local attn
             ELSE IF "attn" \notin LocalsAtSoftmax
             THEN [call |-> Raised(at_conv, "UnboundLocalError", 173), prev_att |-> p]
             \* lines 174-178: attn.view(bs, num_head, -1); self.prev_att = attn
             ELSE IF ~IsBound(bs)
             THEN [call |-> Raised(at_conv, "NameError", 175), prev_att |-> p]
             ELSE LET attn == [shape |-> <<Val(bs), self.num_head, ts>>,
                               rows |-> <<"softmax">>] IN
                  [call |-> [at_conv EXCEPT !.res = "ok", !.ret = attn],
                   prev_att |-> attn]

LAAForward(B, ts, bs, enc_len, dim, self_k) ==
    LET r == LAAForwardResult(B, ts, bs, enc_len, dim, self_k, laa, prev_att, laa_call) IN
    /\ laa.state = "built"
    /\ laa_call' = r.call
    /\ prev_att' = r.prev_att
    /\ UNCHANGED <<laa, vggVars, rnnVars, sdaVars>>

\* self.k, if the caller set it, holds the keys of the current call.
LAANext ==
    \/ \E kernel_size \in KernelSizes, dim \in AttDims, num_head \in Heads,
          base_bound \in BOOLEAN :
          LocationAwareAttentionInit(kernel_size, dim, num_head, base_bound)
    \/ ResetMem
    \/ \E B \in LAABatches, ts \in 1..MaxKeys, dim \in DimBindings :
          \E self_k \in {Unbound, Bound(<<B * laa.num_head, ts, laa.dim>>)},
             bs \in (IF prev_att = None THEN BsBindings ELSE {Unbound}),
             enc_len \in (IF prev_att = None THEN EncLenBindings ELSE {Unbound}) :
             LAAForward(B, ts, bs, enc_len, dim, self_k)

(* ---------------------------------------------------------------------- *)
(* Initial state and specifications                                        *)
(* ---------------------------------------------------------------------- *)
Init ==
    /\ vgg = NoVGG
    /\ vgg_call = NoVGGCall
    /\ rnn = NoRNN
    /\ rnn_call = NoRNNCall
    /\ sda = NoSDA
    /\ sda_call = NoSDACall
    /\ laa = NoLAA
    /\ prev_att = None
    /\ laa_call = NoLAACall

SpecVGG == Init /\ [][VGGNext]_vars
SpecSDA == Init /\ [][SDANext]_vars
SpecLAA == Init /\ [][LAANext]_vars
SpecRNN == Init /\ [][RNNNext]_vars

(* ---------------------------------------------------------------------- *)
(* Claims on VGGExtractor (SpecVGG)                                        *)
(* ---------------------------------------------------------------------- *)

\* C1: for every feature_dim divisible by 13, constructing
\* VGGExtractor(feature_dim) succeeds and derives in_channel = feature_dim/13,
\* freq_dim = 13 and out_dim = 416 from the argument.
C1_MfccDimsFromArgument ==
    (vgg.state # "none" /\ vgg.input_dim % 13 = 0) =>
        /\ vgg.state = "built"
        /\ vgg.in_channel = vgg.input_dim \div 13
        /\ vgg.freq_dim = 13
        /\ vgg.out_dim = 416

\* C2: for every feature_dim divisible by 40 (also when divisible by 13, as
\* 520), construction derives out_dim = 1280, in_channel = feature_dim/40 and
\* freq_dim = 40.
C2_FbankDimsFromArgument ==
    (vgg.state # "none" /\ vgg.input_dim % 40 = 0) =>
        /\ vgg.state = "built"
        /\ vgg.in_channel = vgg.input_dim \div 40
        /\ vgg.freq_dim = 40
        /\ vgg.out_dim = 1280

\* C3: construction with a feature_dim divisible by neither 13 nor 40 fails
\* with the ValueError that describes the accepted dimensions, and yields no
\* instance.
C3_InvalidDimRaisesValueError ==
    (vgg.state # "none" /\ vgg.input_dim % 13 # 0 /\ vgg.input_dim % 40 # 0) =>
        (vgg.state = "failed" /\ vgg.err = "ValueError")

Sampled == rnn_call.res = "ok" /\ rnn.sample_rate > 1
PostT == Len(rnn_call.post)
OutT == Len(rnn_call.output)

LengthsFloorDivided ==
    /\ Len(rnn_call.out_len) = Len(rnn_call.x_len)
    /\ \A i \in 1..Len(rnn_call.x_len) :
          /\ rnn_call.out_len[i] = rnn_call.x_len[i] \div rnn.sample_rate
          /\ rnn_call.out_len[i] <= OutT

DropRowsAreStrided ==
    rnn.sample_style = "drop" =>
        \A i \in 1..OutT : rnn_call.output[i] = rnn_call.post[(i - 1) * rnn.sample_rate + 1]

\* C5 as stated: with sample_rate r > 1, in both styles the output time is
\* floor(T/r), every length is floor-divided by r and is at most the output
\* time, and in 'drop' style output row i is post-recurrence row i*r.
C5_OutputTimeIsFloor ==
    Sampled =>
        /\ OutT = PostT \div rnn.sample_rate
        /\ LengthsFloorDivided
        /\ DropRowsAreStrided

\* C5 amended: the output time is floor(T/r) in 'concat' style, where no
\* remainder timestep is retained, and ceil(T/r) in 'drop' style; every
\* length is floor-divided by r and is at most the output time; in 'drop'
\* style output row i is post-recurrence row i*r.
C5_OutputTimeFloorOrCeil ==
    Sampled =>
        /\ rnn.sample_style = "concat" =>
              /\ OutT = PostT \div rnn.sample_rate
              /\ \A i \in 1..OutT : \A c \in 1..Len(rnn_call.output[i]) :
                    rnn_call.output[i][c][1] < rnn.sample_rate * (PostT \div rnn.sample_rate)
        /\ rnn.sample_style = "drop" =>
              OutT = (PostT + rnn.sample_rate - 1) \div rnn.sample_rate
        /\ LengthsFloorDivided
        /\ DropRowsAreStrided

C5_Witness ==
    /\ Sampled
    /\ rnn.sample_style = "drop"
    /\ rnn.sample_rate = 2
    /\ PostT = 5
    /\ OutT = 3
    /\ rnn_call.out_len[1] = 2

\* C6: in 'concat' style with r > 1 the trailing T mod r timesteps are
\* dropped, the output has time floor(T/r) and width r*F = out_dim, and
\* output row i is rows i*r .. i*r+r-1 of the post-recurrence output in order.
C6_ConcatGroupsRows ==
    (Sampled /\ rnn.sample_style = "concat") =>
        LET F == Len(rnn_call.post[1]) IN
        /\ OutT = PostT \div rnn.sample_rate
        /\ \A i \in 1..OutT :
              /\ Len(rnn_call.output[i]) = rnn.sample_rate * F
              /\ Len(rnn_call.output[i]) = rnn.out_dim
              /\ \A c \in 1..(rnn.sample_rate * F) :
                    rnn_call.output[i][c] =
                        <<(i - 1) * rnn.sample_rate + (c - 1) \div F, (c - 1) % F>>

C6_Witness ==
    /\ Sampled
    /\ rnn.sample_style = "concat"
    /\ rnn.sample_rate = 3
    /\ PostT = 5
    /\ OutT = 1
    /\ Len(rnn_call.output[1]) = 3 * Len(rnn_call.post[1])

(* ---------------------------------------------------------------------- *)
(* Claims on ScaleDotAttention (SpecSDA)                                   *)
(* ---------------------------------------------------------------------- *)
KeyMasked(j) == IsBound(sda_call.mask) /\ Val(sda_call.mask)[j]

\* C7: the returned weights are normalised over the key axis: for every
\* query row with an unmasked key the weights over the keys sum to 1 and
\* every masked key has weight 0.
C7_WeightsNormalisedOverKeys ==
    sda_call.res = "ok" =>
        \A i \in 1..sda_call.Tq :
            (\E j \in 1..sda_call.Tk : ~KeyMasked(j)) =>
                /\ REq(RSum(sda_call.attn[i]), <<1, 1>>)
                /\ \A j \in 1..sda_call.Tk :
                      KeyMasked(j) => REq(sda_call.attn[i][j], Zero)

(* ---------------------------------------------------------------------- *)
(* Claims on LocationAwareAttention (SpecLAA)                              *)
(* ---------------------------------------------------------------------- *)
NameResolutionErrors == {"NameError", "AttributeError"}

\* The call found prev_att unset and its lazy initialisation ran to the
\* location convolution, with one valid length per batch item, each within
\* the key axis.
LazilyInitialised ==
    /\ laa_call.op = "forward"
    /\ laa_call.lazy
    /\ laa_call.conv_in # None
    /\ Len(Val(laa_call.enc_len)) = Val(laa_call.bs)
    /\ \A b \in 1..Val(laa_call.bs) : Val(laa_call.enc_len)[b] <= laa_call.ts

\* C8: on the first forward after construction or reset_mem, the prev_att read
\* by the location convolution is, for every batch item b and every head,
\* 1/enc_len[b] below enc_len[b] and 0 from enc_len[b] up to T_k - 1, so each
\* row sums to 1.
C8_LazyInitIsUniform ==
    LazilyInitialised =>
        /\ laa_call.conv_in.shape = <<Val(laa_call.bs), laa.num_head, laa_call.ts>>
        /\ \A b \in 1..Val(laa_call.bs) :
              LET sl == Val(laa_call.enc_len)[b]
                  row == laa_call.conv_in.rows[b]
              IN  /\ Len(row) = laa_call.ts
                  /\ \A t \in 1..laa_call.ts :
                        REq(row[t], IF t <= sl THEN <<1, sl>> ELSE Zero)
                  /\ REq(RSum(row), <<1, 1>>)

C8_Witness ==
    /\ LazilyInitialised
    /\ laa_call.ts = 2
    /\ laa_call.enc_len = Bound(<<2, 1>>)
    /\ laa_call.conv_in.rows[2] = <<(<<1, 1>>), Zero>>
    /\ prev_att = laa_call.conv_in

\* C9: a forward with batch size 2 that follows a forward with batch size 4
\* on the same instance, with no reset_mem in between and so with the stale
\* attention distribution of batch 4 as prev_att, fails with a shape-mismatch
\* error.
C9_StaleBatchRaisesShapeMismatch ==
    ( /\ laa_call.op = "forward"
      /\ laa_call.prev_B = 4
      /\ laa_call.B = 2
      /\ ~laa_call.lazy
      /\ laa_call.conv_in # None
      /\ laa_call.conv_in.shape[1] = 4
      /\ \A b \in 1..4 : REq(RSum(laa_call.conv_in.rows[b]), <<1, 1>>)
      /\ laa_call.res \notin NameResolutionErrors )
    => laa_call.res = "RuntimeError"

\* C10: prev_att is none at construction and after every reset_mem, and a
\* forward whose names resolve and whose shapes agree completes with prev_att
\* equal to the weights it returns, of shape (batch, num_head, T_k).
C10_PrevAttIsReturnedWeights ==
    /\ (laa.state = "built" /\ laa_call.op \in {"none", "reset_mem"}) => prev_att = None
    /\ ( /\ laa_call.op = "forward"
         /\ laa_call.res \notin NameResolutionErrors \cup {"IndexError", "RuntimeError"} )
       => /\ laa_call.res = "ok"
          /\ prev_att = laa_call.ret
          /\ prev_att # None
          /\ prev_att.shape = <<laa_call.B, laa.num_head, laa_call.ts>>

====
